---- MODULE Spec2Model ----
(***************************************************************************)
(* A model of prefoil's Airfoil class (src/prefoil/airfoil.py).            *)
(*                                                                         *)
(* Numbers are exact rationals <<n, d>> (d > 0, lowest terms) in place of  *)
(* float64.  The boundary spline is the spline_order = 2 curve: the        *)
(* polyline through the coordinate set spline.X, so getValue(0) is the     *)
(* first coordinate, getValue(1) the last, and the end derivatives are the *)
(* first and last segment vectors up to a positive factor.                 *)
(* Two quantities that are irrational in general are kept in an exact      *)
(* form: chord holds the squared chord length, twist holds the vector      *)
(* TE - LE whose polar angle is the twist.                                 *)
(***************************************************************************)
EXTENDS Integers, Sequences, FiniteSets, TLC

(***************************************************************************)
(* Exact rational arithmetic                                               *)
(***************************************************************************)
Abs(n) == IF n < 0 THEN -n ELSE n

RECURSIVE Gcd(_, _)
Gcd(a, b) == IF b = 0 THEN a ELSE Gcd(b, a % b)

\* n / d in lowest terms with a positive denominator; g is gcd(|n|, |d|)
Lowest(n, d, g) ==
    IF d < 0 THEN <<(-n) \div g, (-d) \div g>> ELSE <<n \div g, d \div g>>
Norm(n, d) == Lowest(n, d, Gcd(Abs(n), Abs(d)))

R(n) == <<n, 1>>
RNeg(a) == <<-a[1], a[2]>>
\* Common factors (g, g1, g2) are divided out before the products are taken.
RAddBy(a, b, g) ==
    Norm(a[1] * (b[2] \div g) + b[1] * (a[2] \div g), (a[2] \div g) * b[2])
RAdd(a, b) == RAddBy(a, b, Gcd(a[2], b[2]))
RSub(a, b) == RAdd(a, RNeg(b))
RMulBy(a, b, g1, g2) ==
    <<(a[1] \div g1) * (b[1] \div g2), (a[2] \div g2) * (b[2] \div g1)>>
RMul(a, b) ==
    IF a[1] = 0 \/ b[1] = 0 THEN <<0, 1>>
    ELSE RMulBy(a, b, Gcd(Abs(a[1]), b[2]), Gcd(Abs(b[1]), a[2]))
RInv(b) == IF b[1] < 0 THEN <<-b[2], -b[1]>> ELSE <<b[2], b[1]>>
RDiv(a, b) == RMul(a, RInv(b))
RLtBy(a, b, g) == a[1] * (b[2] \div g) < b[1] * (a[2] \div g)
RLt(a, b) == RLtBy(a, b, Gcd(a[2], b[2]))
RLe(a, b) == a = b \/ RLt(a, b)
RAbs(a) == <<Abs(a[1]), a[2]>>
RZero == <<0, 1>>
RHalf == <<1, 2>>

\* 2-vectors of rationals
Pt(x, y) == <<R(x), R(y)>>
VAdd(p, q) == <<RAdd(p[1], q[1]), RAdd(p[2], q[2])>>
VSub(p, q) == <<RSub(p[1], q[1]), RSub(p[2], q[2])>>
VScale(k, p) == <<RMul(k, p[1]), RMul(k, p[2])>>
Dot(p, q) == RAdd(RMul(p[1], q[1]), RMul(p[2], q[2]))
Cross(p, q) == RSub(RMul(p[1], q[2]), RMul(p[2], q[1]))
Norm2(p) == Dot(p, p)

Reverse(s) == [i \in 1..Len(s) |-> s[Len(s) + 1 - i]]

Sgn(r) == IF r[1] > 0 THEN 1 ELSE IF r[1] < 0 THEN -1 ELSE 0

(***************************************************************************)
(* pyspline.Curve for k = 2: a polyline over its data points.  A curve     *)
(* parameter is <<i, t>>: the point a fraction t in [0, 1) of the way from *)
(* data point i to data point i + 1; s = 0 is <<1, 0>>, s = 1 is           *)
(* <<Len, 0>>.                                                             *)
(***************************************************************************)
spline_order == 2

SStart == <<1, RZero>>
SEnd(X) == <<Len(X), RZero>>

getValue(X, s) ==
    IF s[2] = RZero THEN X[s[1]]
    ELSE VAdd(X[s[1]], VScale(s[2], VSub(X[s[1] + 1], X[s[1]])))

\* Curve.getDerivative at the two ends, up to the positive factor of the
\* parametrisation: the first and the last segment vector.
getDerivative0(X) == VSub(X[2], X[1])
getDerivative1(X) == VSub(X[Len(X)], X[Len(X) - 1])

\* Curve.splitCurve(s_LE) with s_LE at a data point: both halves keep it.
splitCurve(X, i) == <<SubSeq(X, 1, i), SubSeq(X, i, Len(X))>>

\* Signed offset of q from the line through c with direction d.
Side(c, d, q) == Cross(d, VSub(q, c))

MinOf(S) == CHOOSE i \in S : \A j \in S : i <= j

\* The signed offsets f of the data points of X from the ray through c
\* along d, the segments of X that cross the ray, and the data points
\* nearest to it.
Offsets(X, c, d) == [i \in 1..Len(X) |-> Side(c, d, X[i])]
Crossings(f) == {i \in 1..(Len(f) - 1) : Sgn(f[i]) * Sgn(f[i + 1]) <= 0}
Nearest(f) == {i \in 1..Len(f) : \A j \in 1..Len(f) : RLe(RAbs(f[i]), RAbs(f[j]))}
CrossingAt(f, i) ==
    IF Sgn(f[i]) = 0 THEN <<i, RZero>>
    ELSE IF Sgn(f[i + 1]) = 0 THEN <<i + 1, RZero>>
    ELSE <<i, RDiv(f[i], RSub(f[i], f[i + 1]))>>
projectOffsets(f) ==
    IF Crossings(f) # {} THEN CrossingAt(f, MinOf(Crossings(f)))
    ELSE <<MinOf(Nearest(f)), RZero>>

\* Curve.projectCurve(ray): the parameter on X of the closest approach of X
\* to the ray through c along d.  The ray is taken long enough to span X.  X
\* crosses it on the first segment whose ends are on opposite sides (or on
\* it); with no crossing the closest approach is at the data point nearest
\* to the ray.
projectCurve(X, c, d) == projectOffsets(Offsets(X, c, d))

(***************************************************************************)
(* Airfoil: feature extraction.  self is the record of the object's fields.*)
(***************************************************************************)
None == <<>>

getTE(self) ==
    VScale(RHalf, VAdd(getValue(self.spline, SStart),
                       getValue(self.spline, SEnd(self.spline))))

\* getLE: the point of the spline furthest from self.TE.  brentq's bracket
\* [0.3, 0.7] keeps the search off the two ends: the interior data points.
\* Distances are compared by their squares dd; the first of equally distant
\* points is taken.  s_LE is the index of the data point.
Dist2(X, p) == [i \in 1..Len(X) |-> Norm2(VSub(X[i], p))]
Farthest(dd) ==
    MinOf({i \in 2..(Len(dd) - 1) : \A j \in 2..(Len(dd) - 1) : RLe(dd[j], dd[i])})
LEAt(X, s) == <<getValue(X, <<s, RZero>>), s>>
getLE(self) == LEAt(self.spline, Farthest(Dist2(self.spline, self.TE)))

\* The polar angle of chord_vec, held as chord_vec itself.
getTwist(self) == VSub(self.TE, self.LE)

\* The chord length, held as its square.
getChord(self) == Norm2(VSub(self.TE, self.LE))

getSplinePts(self) == self.spline

\* The trailing-edge thickness, held as its square.
getTEThickness(self) ==
    Norm2(VSub(getValue(self.spline, SStart),
               getValue(self.spline, SEnd(self.spline))))

splitAirfoil(self) == splitCurve(self.spline, self.s_LE)

\* np.linspace(0, 1, nPts - 1, endpoint=False)[1:]
lin_sampling(nPts) == [j \in 1..(nPts - 2) |-> Norm(j, nPts - 1)]

\* (cos(pi/2 + twist), sin(pi/2 + twist)) up to the positive factor |chord_vec|
NormalToChord(twist) == <<RNeg(twist[2]), twist[1]>>

\* (cos(pi/2 - twist), sin(pi/2 - twist)) up to the positive factor |chord_vec|
BritishDirection(twist) == <<twist[2], twist[1]>>

\* The interior points of the camber and thickness curves come out of
\* pyspline's curve-to-curve projection of one ray each.  The model holds
\* such a point as the ray that was shot for it: the point or the camber
\* parameter the ray goes through, and its direction.
Sample(through, direction) == [through |-> through, direction |-> direction]

\* The point of the chord line a fraction f of the way from LE to TE
chordPoint(self, f) == VAdd(self.LE, VScale(f, VSub(self.TE, self.LE)))

\* The camber points without LE and TE added
getCDistributionInner(self, nPts) ==
    [j \in 1..(nPts - 2) |->
        Sample(chordPoint(self, lin_sampling(nPts)[j]), NormalToChord(self.twist))]

getCDistribution(self, nPts) ==
    <<self.LE>>
        \o [j \in 1..(nPts - 2) |->
                Sample(chordPoint(self, lin_sampling(nPts)[j]), NormalToChord(self.twist))]
        \o <<self.TE>>

ThicknessTypes == {"american", "british"}

\* The direction of the thickness ray at the camber parameter f.  The
\* american direction is the normal of the camber curve at f, which the
\* model does not evaluate.
thicknessDirection(self, tType, f) ==
    IF tType = "british" THEN BritishDirection(self.twist) ELSE <<"camber normal", f>>

\* getThickness after its type check
getThickness(self, nPts, tType) ==
    <<<<self.LE[1], RZero>>>>
        \o [j \in 1..(nPts - 2) |->
                Sample(lin_sampling(nPts)[j],
                       thicknessDirection(self, tType, lin_sampling(nPts)[j]))]
        \o <<<<self.TE[1], getTEThickness(self)>>>>

(***************************************************************************)
(* Canonicalisation and recompute                                          *)
(***************************************************************************)
\* The shoelace sum of reorder.  coords[i - 1] wraps from the first point to
\* the last.
areaTerm(cur, prev) == RMul(RSub(cur[1], prev[1]), RAdd(cur[2], prev[2]))

RECURSIVE areaUpTo(_, _)
areaUpTo(coords, n) ==
    IF n = 0 THEN RZero
    ELSE RAdd(areaUpTo(coords, n - 1),
              areaTerm(coords[n], coords[IF n = 1 THEN Len(coords) ELSE n - 1]))

\* The sum without the term that wraps from the first point to the last
areaNoWrap(coords) ==
    RSub(areaUpTo(coords, Len(coords)), areaTerm(coords[1], coords[Len(coords)]))

area(coords) == areaUpTo(coords, Len(coords))

\* (coords[0, :] == coords[-1, :]).any()
closedCurveAny(coords) ==
    coords[1][1] = coords[Len(coords)][1] \/ coords[1][2] = coords[Len(coords)][2]

\* (coords[0, :] == coords[-1, :]).all()
closedCurveOf(coords) ==
    coords[1][1] = coords[Len(coords)][1] /\ coords[1][2] = coords[Len(coords)][2]

\* coords.size of an [N, 2] array
\* the number of rows of the array, for its number of elements
sizeRows(coords) == Len(coords)

size(coords) == 2 * Len(coords)

\* The assignments of recompute, one operator each, in the order of the
\* code; s is the object the assignment finds.
setSpline(s, coords) ==
    [s EXCEPT !.spline = SubSeq(coords, 1, Len(coords)), !.nRecompute = @ + 1]
setTE(s) == [s EXCEPT !.TE = getTE(s)]
setLEFrom(s, le) == [s EXCEPT !.LE = le[1], !.s_LE = le[2]]
setLE(s) == setLEFrom(s, getLE(s))
setChord(s) == [s EXCEPT !.chord = getChord(s)]
setTwist(s) == [s EXCEPT !.twist = getTwist(s)]
setClosedCurve(s, coords) == [s EXCEPT !.closedCurve = closedCurveOf(coords)]
\* recompute without the reset of the cache
keepSampledPts(s) == s
clearSampledPts(s) == [s EXCEPT !.sampled_pts = None]
setCamber(s, coords) == [s EXCEPT !.camber = getCDistribution(s, size(coords))]
setBritish(s, coords) ==
    [s EXCEPT !.british_thickness = getThickness(s, size(coords), "british")]
setAmerican(s, coords) ==
    [s EXCEPT !.american_thickness = getThickness(s, size(coords), "american")]
\* recompute returns: handed keeps the coordinate array it was called with.
\* The call made by the operation returns after the one reorder makes.
returned(s, coords) == [s EXCEPT !.handed = coords]

RECURSIVE recompute(_, _)
RECURSIVE reorder(_)

\* reorder that leaves a clockwise array as it is
reorderKeep(self) == self

\* reorder that reverses once more after the nested call
reorderAgain(self) ==
    IF RLt(RZero, area(self.spline)) \/ self.nRecompute = 2
    THEN recompute(self, Reverse(self.spline))
    ELSE self

reorder(self) ==
    IF RLt(RZero, area(self.spline))
    THEN recompute(self, Reverse(self.spline))
    ELSE self

recompute(self, coords) ==
    returned(
      setAmerican(
        setBritish(
          setCamber(
            clearSampledPts(
              setClosedCurve(
                setTwist(setChord(setLE(setTE(reorder(setSpline(self, coords)))))),
                coords)),
            coords),
          coords),
        coords),
      coords)

\* Airfoil.__init__ with normalize = False and nCtl = None
construct(coords) ==
    recompute([spline |-> None, TE |-> None, LE |-> None, s_LE |-> 0,
               chord |-> RZero, twist |-> None, closedCurve |-> FALSE,
               sampled_pts |-> None, camber |-> None,
               british_thickness |-> None, american_thickness |-> None,
               nRecompute |-> 0, handed |-> None],
              coords)

\* recompute returns: Curve needs data points, and brentq needs a point of
\* the spline strictly between its two ends.  An operation whose new
\* coordinate set has none raises inside recompute and is not followed here.
CanRecompute(coords) == Len(coords) >= 3

(***************************************************************************)
(* utils.geom_ops: rigid transforms of a coordinate array.  A rotation     *)
(* angle is given by its exact <<cos, sin>>.                               *)
(***************************************************************************)
_translateCoords(X, delta) == [i \in 1..Len(X) |-> VAdd(X[i], delta)]

_scaleCoords(X, factor, origin) ==
    [i \in 1..Len(X) |-> VAdd(origin, VScale(factor, VSub(X[i], origin)))]

rotateAbout(v, angle, origin) ==
    VAdd(origin, <<RSub(RMul(angle[1], v[1]), RMul(angle[2], v[2])),
                   RAdd(RMul(angle[2], v[1]), RMul(angle[1], v[2]))>>)

_rotateCoords(X, angle, origin) ==
    [i \in 1..Len(X) |-> rotateAbout(VSub(X[i], origin), angle, origin)]

(***************************************************************************)
(* Geometry modification.  Each operation returns the record               *)
(* [self, err, warn, ret]: the object after the call, the message of the   *)
(* Error it raised ("" for none), the warnings it emitted, what it         *)
(* returned.                                                               *)
(***************************************************************************)
NoError == ""
Done(self) == [self |-> self, err |-> NoError, warn |-> {}, ret |-> None]
Raise(self, msg) == [self |-> self, err |-> msg, warn |-> {}, ret |-> None]

rotate(self, angle, origin) ==
    Done(recompute(self, _rotateCoords(self.spline, angle, origin)))

scale(self, factor, origin) ==
    Done(recompute(self, _scaleCoords(self.spline, factor, origin)))

translate(self, delta) ==
    Done(recompute(self, _translateCoords(self.spline, delta)))

\* The test with >= 0 in place of > 0
BluntKeepOnLine(chord, current_direction) == RLe(RZero, Dot(chord, current_direction))

\* The coordinates makeBluntTE keeps: a positive projection onto LE - TE,
\* measured from the cut point.
BluntKeep(chord, current_direction) == RLt(RZero, Dot(chord, current_direction))

SelectSeq2(X, keep(_)) ==
    LET F[i \in 0..Len(X)] ==
            IF i = 0 THEN <<>>
            ELSE IF keep(i) THEN Append(F[i - 1], X[i]) ELSE F[i - 1]
    IN  F[Len(X)]

WarnTop == "makeBluntTE did not cut the top surface. Try again with a different top_guess."
WarnBottom == "makeBluntTE did not cut the bottom surface. Try again with a different bottom_guess."

\* xCut_global = LE + xCut * (TE - LE)
cutPoint(self, xCut) == VAdd(self.LE, VScale(xCut, VSub(self.TE, self.LE)))

\* The old coordinates that stay
BluntKept(X, chord, xCut_global) ==
    SelectSeq2(X, LAMBDA i : BluntKeep(chord, VSub(X[i], xCut_global)))

\* np.vstack((top intersection, coords, bottom intersection)), with the
\* warnings for a projection that stayed at the trailing edge
BluntJoin(top_surf, s_top, kept, bottom_surf, s_bottom) ==
    [coords |-> <<getValue(top_surf, s_top)>> \o kept
                    \o <<getValue(bottom_surf, s_bottom)>>,
     warn |-> (IF s_top = SStart THEN {WarnTop} ELSE {})
                \cup (IF s_bottom = SEnd(bottom_surf) THEN {WarnBottom} ELSE {})]

BluntAt(self, xCut_global, direction, surf) ==
    BluntJoin(surf[1], projectCurve(surf[1], xCut_global, direction),
              BluntKept(getSplinePts(self), VSub(self.LE, self.TE), xCut_global),
              surf[2], projectCurve(surf[2], xCut_global, direction))

\* The coordinate array makeBluntTE hands to recompute, with its warnings.
\* The projection of the model does not depend on top_guess, bottom_guess.
BluntCut(self, xCut) ==
    BluntAt(self, cutPoint(self, xCut), NormalToChord(self.twist), splitAirfoil(self))

makeBluntFrom(self, cut) ==
    [self |-> recompute(self, cut.coords), err |-> NoError,
     warn |-> cut.warn, ret |-> None]

makeBluntTE(self, xCut) == makeBluntFrom(self, BluntCut(self, xCut))

\* ds[1] / ds[0] in float64: a zero ds[0] gives <<1, 0>> (+inf), <<-1, 0>>
\* (-inf) or <<0, 0>> (nan).
Slope(ds) == IF ds[1] # RZero THEN RDiv(ds[2], ds[1]) ELSE <<Sgn(ds[2]), 0>>
IsFinite(a) == a[2] # 0
IsNaN(a) == a = <<0, 0>>
SlopeEq(a, b) == ~IsNaN(a) /\ ~IsNaN(b) /\ a = b
SlopeGt(a, b) ==
    /\ ~IsNaN(a) /\ ~IsNaN(b) /\ a # b
    /\ IF IsFinite(a) /\ IsFinite(b) THEN RLt(b, a)
       ELSE a = <<1, 0>> \/ b = <<-1, 0>>

\* The slopes dx_u, dx_l of the spline at s = 0 and s = 1
SlopeUpper(X) == Slope(getDerivative0(X))
SlopeLower(X) == Slope(getDerivative1(X))

ErrXCut == "xCut must be between 0 and 1."
ErrParallel == "Slopes at blunt TE are parallel, no intersection point for a sharp TE."
ErrTowardsLE == "Slopes at blunt TE indicate an intersection towards the LE of the airfoil."

\* xCut > 1.0 or xCut < 0
BadXCutStrict(xCut) == RLt(R(1), xCut) \/ RLt(xCut, RZero)

\* xCut >= 1.0 or xCut <= 0
BadXCut(xCut) == RLe(R(1), xCut) \/ RLe(xCut, RZero)

\* The intersection of the two trailing-edge tangent lines: x, then y at x.
SharpX(val_u, dx_u, val_l, dx_l) ==
    RDiv(RAdd(RSub(RSub(val_l[2], val_u[2]), RMul(val_l[1], dx_l)),
              RMul(val_u[1], dx_u)),
         RSub(dx_u, dx_l))
SharpAt(val_l, dx_l, x) == <<x, RAdd(val_l[2], RMul(dx_l, RSub(x, val_l[1])))>>
SharpPoint(val_u, dx_u, val_l, dx_l) ==
    SharpAt(val_l, dx_l, SharpX(val_u, dx_u, val_l, dx_l))

\* np.vstack((pt, coords, pt))
Wrap(pt, X) == <<pt>> \o X \o <<pt>>

\* np.vstack((pt, coords))
WrapFront(pt, X) == <<pt>> \o X

\* The coordinate array with the intersection point at the front alone
SharpCoordsFront(me) ==
    WrapFront(SharpPoint(getValue(me.spline, SStart), SlopeUpper(me.spline),
                         getValue(me.spline, SEnd(me.spline)), SlopeLower(me.spline)),
              getSplinePts(me))

\* The coordinate array sharpenTE hands to recompute, from the blunt airfoil me.
SharpCoords(me) ==
    Wrap(SharpPoint(getValue(me.spline, SStart), SlopeUpper(me.spline),
                    getValue(me.spline, SEnd(me.spline)), SlopeLower(me.spline)),
         getSplinePts(me))

\* sharpenTE testing dx_u >= dx_l before dx_u == dx_l
sharpenSlopesGe(b, dx_u, dx_l) ==
    IF SlopeEq(dx_u, dx_l) \/ SlopeGt(dx_u, dx_l)
    THEN [Raise(b.self, ErrTowardsLE) EXCEPT !.warn = b.warn]
    ELSE [Done(recompute(b.self, SharpCoords(b.self))) EXCEPT !.warn = b.warn]

\* sharpenTE from the blunt airfoil: b is the outcome of the blunt cut (or
\* the object itself when it was blunt already), dx_u and dx_l its slopes.
sharpenSlopes(b, dx_u, dx_l) ==
    IF SlopeEq(dx_u, dx_l)
    THEN [Raise(b.self, ErrParallel) EXCEPT !.warn = b.warn]
    ELSE IF SlopeGt(dx_u, dx_l)
    THEN [Raise(b.self, ErrTowardsLE) EXCEPT !.warn = b.warn]
    ELSE [Done(recompute(b.self, SharpCoords(b.self))) EXCEPT !.warn = b.warn]

sharpenBlunt(b) ==
    sharpenSlopes(b, SlopeUpper(b.self.spline), SlopeLower(b.self.spline))

sharpenTE(self, xCut) ==
    IF BadXCut(xCut) THEN Raise(self, ErrXCut)
    ELSE sharpenBlunt(IF self.closedCurve THEN makeBluntTE(self, xCut) ELSE Done(self))

RECURSIVE ISqrtB(_, _, _)
ISqrtB(n, lo, hi) ==
    IF lo >= hi THEN lo
    ELSE IF ((lo + hi + 1) \div 2) * ((lo + hi + 1) \div 2) <= n
    THEN ISqrtB(n, (lo + hi + 1) \div 2, hi)
    ELSE ISqrtB(n, lo, ((lo + hi + 1) \div 2) - 1)
\* 46340 is the largest integer whose square TLC's 32-bit integers hold.
ISqrt(n) == ISqrtB(n, 0, IF n < 46340 THEN n ELSE 46340)
IsSquare(r) == ISqrt(r[1]) * ISqrt(r[1]) = r[1] /\ ISqrt(r[2]) * ISqrt(r[2]) = r[2]
RSqrt(r) == <<ISqrt(r[1]), ISqrt(r[2])>>

\* A Bezier segment at parameter u (de Casteljau)
RECURSIVE Bezier(_, _)
Bezier(P, u) ==
    IF Len(P) = 1 THEN P[1]
    ELSE Bezier([i \in 1..(Len(P) - 1) |->
                    VAdd(VScale(RSub(R(1), u), P[i]), VScale(u, P[i + 1]))], u)

Mid(p, q) == VScale(RHalf, VAdd(p, q))

\* Curve(t=[0]*k + [0.5] + [1]*k, k=k, coef=coeff).splitCurve(0.5): the two
\* Bezier segments of the B-spline with its one inner knot at 0.5.
split3(coeff, m) == <<<<coeff[1], coeff[2], m>>, <<m, coeff[3], coeff[4]>>>>
split4(coeff, q1, q2, j) ==
    <<<<coeff[1], coeff[2], q1, j>>, <<j, q2, coeff[4], coeff[5]>>>>
split4At(coeff, q1, q2) == split4(coeff, q1, q2, Mid(q1, q2))
splitTECurve(coeff, k) ==
    IF k = 3 THEN split3(coeff, Mid(coeff[2], coeff[3]))
    ELSE split4At(coeff, Mid(coeff[2], coeff[3]), Mid(coeff[3], coeff[4]))

\* np.linspace(1, 0, n)
linspace10(n) == [i \in 1..n |-> IF n = 1 THEN R(1) ELSE Norm(n - i, n - 1)]

\* The control point next to the end point c, along the end slope dy_dx
tangentPoint(c, dy_dx, dx) ==
    <<RAdd(c[1], RMul(dx, RHalf)), RAdd(c[2], RMul(RMul(dy_dx, dx), RHalf))>>

\* The fifth control point of an order-4 curve: TE + dx * chord_vec / |chord_vec|
apexPoint(te, chord_vec, len, dx) ==
    <<RAdd(te[1], RMul(RDiv(chord_vec[1], len), dx)),
      RAdd(te[2], RMul(RDiv(chord_vec[2], len), dx))>>

roundCoeffEnds(self, k, dx, c0, cN) ==
    IF k = 4
    THEN <<c0, tangentPoint(c0, SlopeUpper(self.spline), dx),
           apexPoint(self.TE, VSub(self.TE, self.LE),
                     RSqrt(Norm2(VSub(self.TE, self.LE))), dx),
           tangentPoint(cN, SlopeLower(self.spline), dx), cN>>
    ELSE <<c0, tangentPoint(c0, SlopeUpper(self.spline), dx),
           tangentPoint(cN, SlopeLower(self.spline), dx), cN>>

\* The control points of the rounded trailing edge; dx is the unit length
\* getTEThickness() * dist.
roundCoeff(self, k, dx) ==
    roundCoeffEnds(self, k, dx, getValue(self.spline, SStart),
                   getValue(self.spline, SEnd(self.spline)))

HalfPts(nPts) == nPts \div 2

BezierPts(P, u) == [i \in 1..Len(u) |-> Bezier(P, u[i])]

\* np.vstack((upper_pts[:-1], coords, lower_pts[1:]))
RoundJoin(upper_pts, X, lower_pts) ==
    SubSeq(upper_pts, 1, Len(upper_pts) - 1) \o X \o SubSeq(lower_pts, 2, Len(lower_pts))

RoundHalves(halves, u, X) ==
    RoundJoin(BezierPts(halves[1], u), X, BezierPts(halves[2], u))

\* The coordinate array roundTE hands to recompute, from the blunt airfoil me.
RoundCoords(me, k, nPts, dist) ==
    RoundHalves(splitTECurve(roundCoeff(me, k, RMul(RSqrt(getTEThickness(me)), dist)), k),
                linspace10(HalfPts(nPts)), getSplinePts(me))

roundBlunt(b, k, nPts, dist) ==
    [Done(recompute(b.self, RoundCoords(b.self, k, nPts, dist))) EXCEPT !.warn = b.warn]

roundTE(self, xCut, k, nPts, dist) ==
    IF BadXCut(xCut) THEN Raise(self, ErrXCut)
    ELSE roundBlunt(IF self.closedCurve THEN makeBluntTE(self, xCut) ELSE Done(self),
                    k, nPts, dist)

\* normalizeAirfoil and its three steps.  The angle -twist is held as its
\* exact <<cos, sin>>: the chord vector over its length, mirrored.
center(self) ==
    IF self.LE = Pt(0, 0) THEN Done(self)
    ELSE translate(self, VScale(R(-1), self.LE))

AngleOf(chord_vec, len) == <<RDiv(chord_vec[1], len), RDiv(chord_vec[2], len)>>
MinusAngle(angle) == <<angle[1], RNeg(angle[2])>>

\* derotate turning by +twist
derotateOnward(self, origin) ==
    rotate(self, AngleOf(self.twist, RSqrt(self.chord)), origin)

derotate(self, origin) ==
    rotate(self, MinusAngle(AngleOf(self.twist, RSqrt(self.chord))), origin)

normalizeChord(self, origin) ==
    IF self.chord = R(1) THEN Done(self)
    ELSE scale(self, RInv(RSqrt(self.chord)), origin)

\* The three steps under their flags, each from the object the step before
\* left
centerIf(flag, self) == IF flag THEN center(self).self ELSE self
derotateIf(flag, self) == IF flag THEN derotate(self, Pt(0, 0)).self ELSE self
normalizeChordIf(flag, self) == IF flag THEN normalizeChord(self, Pt(0, 0)).self ELSE self

\* The object each step leaves is settled before the next step starts.
normalizeAirfoil(self, derotate_, normalize, center_) ==
    CHOOSE r \in {Done(normalizeChordIf(normalize, rotated)) :
                    rotated \in {derotateIf(derotate_, centered) :
                        centered \in {centerIf(center_, self)}}} : TRUE

\* Airfoil.__init__ with nCtl = None
constructWith(coords, normalize) ==
    IF normalize
    THEN CHOOSE r \in {normalizeAirfoil(self, TRUE, TRUE, TRUE).self :
                         self \in {construct(coords)}} : TRUE
    ELSE construct(coords)

\* np.abs(np.dot(unit_chord_vec, unit_delta)) < tol, compared by squares: d
\* is the dot product, n the product of the squared lengths.  A zero-length
\* vector makes the float quotient nan, and the test false.
IsTEBy(d, n, tol) ==
    /\ n # RZero
    /\ RLt(RZero, tol)
    /\ RLt(RMul(d, d), RMul(RMul(tol, tol), n))
IsTESegment(chord_vec, delta, tol) ==
    IsTEBy(Dot(chord_vec, delta), RMul(Norm2(chord_vec), Norm2(delta)), tol)

\* The segments ii (from point ii to point ii + 1) removeTE flags
flaggedSegments(self, coords, tol, xtol) ==
    {ii \in 1..(Len(coords) - 1) :
        /\ RLe(VAdd(self.LE, VScale(xtol, VSub(self.TE, self.LE)))[1], coords[ii][1])
        /\ IsTESegment(VSub(self.TE, self.LE), VSub(coords[ii + 1], coords[ii]), tol)}

\* TE_mask and airfoil_mask: the end points of the flagged and of the other
\* segments
masksOf(flagged, elems) ==
    <<UNION {{ii, ii + 1} : ii \in flagged},
      UNION {{ii, ii + 1} : ii \in elems \ flagged}>>

\* The index sets removeTE collects (1-based): <<TE_mask, airfoil_mask>>.
removeTEMasks(self, tol, xtol) ==
    masksOf(flaggedSegments(self, getSplinePts(self), tol, xtol),
            1..(Len(getSplinePts(self)) - 1))

\* coords[list(set(mask))]: the rows of the mask in ascending order
Rows(coords, mask) == SelectSeq2(coords, LAMBDA i : i \in mask)

removeMasked(self, coords, masks) ==
    [Done(recompute(self, Rows(coords, masks[2]))) EXCEPT !.ret = Rows(coords, masks[1])]

removeTE(self, tol, xtol) ==
    removeMasked(self, getSplinePts(self), removeTEMasks(self, tol, xtol))

(***************************************************************************)
(* Sampling                                                                *)
(***************************************************************************)
\* sampling.joinedSpacing: nPts parameters from 0 to s_LE joined, at s_LE,
\* with nPts parameters from s_LE to 1; evenly spaced here.  Parameters are
\* fractions of the data-point index range.
joinedSpacing(nPts, s) ==
    [j \in 1..(2 * nPts - 1) |->
        IF j <= nPts THEN RMul(s, Norm(j - 1, nPts - 1))
        ELSE RAdd(s, RMul(RSub(R(1), s), Norm(j - nPts, nPts - 1)))]

\* The curve parameter <<i, t>> of the fraction f; pos is its position in
\* the index range.
ParamAt(pos, i) == <<i, RSub(pos, R(i))>>
ParamFrom(pos) == ParamAt(pos, pos[1] \div pos[2])
ParamOf(X, f) == ParamFrom(RAdd(R(1), RMul(f, R(Len(X) - 1))))

\* np.linspace(val1, val2, nTEPts + 2)[:-2]: the points with val1, the last
\* boundary sample, among them
coords_TEFromEnd(val1, val2, nTEPts) ==
    [j \in 1..nTEPts |-> VAdd(val1, VScale(Norm(j - 1, nTEPts + 1), VSub(val2, val1)))]

\* np.linspace(val1, val2, nTEPts + 2)[1:-1]
coords_TE(val1, val2, nTEPts) ==
    [j \in 1..nTEPts |-> VAdd(val1, VScale(Norm(j, nTEPts + 1), VSub(val2, val1)))]

\* self.spline.getValue(s)
sampledAlong(X, s) == [j \in 1..Len(s) |-> getValue(X, ParamOf(X, s[j]))]

\* TE_knot doubles the last sampled point of an open curve
sampledKnot(self, TE_knot, sampled) ==
    IF ~self.closedCurve /\ TE_knot
    THEN Append(sampled, sampled[Len(sampled)]) ELSE sampled

\* The points across the blunt trailing edge
sampledTE(self, nTEPts, sampled) ==
    IF nTEPts # 0 /\ ~self.closedCurve
    THEN sampled \o coords_TE(getValue(self.spline, SEnd(self.spline)),
                              getValue(self.spline, SStart), nTEPts)
    ELSE sampled

\* An open curve is closed with its first point
sampledClose(self, sampled) ==
    IF ~self.closedCurve THEN Append(sampled, sampled[1]) ELSE sampled

sampledStore(self, sampled_coords) ==
    [Done([self EXCEPT !.sampled_pts = sampled_coords]) EXCEPT !.ret = sampled_coords]

getSampledPts(self, nPts, nTEPts, TE_knot) ==
    sampledStore(self,
        sampledClose(self,
            sampledTE(self, nTEPts,
                sampledKnot(self, TE_knot,
                    sampledAlong(self.spline,
                        joinedSpacing(nPts, Norm(self.s_LE - 1, Len(self.spline) - 1)))))))

(***************************************************************************)
(* Queries.  Each returns the same record as an operation; its self is the *)
(* object it was given wherever the method assigns no field.               *)
(***************************************************************************)
Return(self, v) == [self |-> self, err |-> NoError, warn |-> {}, ret |-> v]

ErrThicknessType == "Do not recognize thickness type!"

\* The public getThickness, with its type check
getThicknessChecked(self, nPts, tType) ==
    IF tType \notin ThicknessTypes THEN Raise(self, ErrThicknessType)
    ELSE Return(self, getThickness(self, nPts, tType))

\* The angle between the end tangents, held as <<top . bottom, |top|^2,
\* |bottom|^2>>, the data of its cosine.
TEAngleOf(top, bottom) == <<Dot(top, bottom), Norm2(top), Norm2(bottom)>>
getTEAngle(self) ==
    Return(self, TEAngleOf(getDerivative0(self.spline), getDerivative1(self.spline)))

\* |first|^3 / |first x second|: the second derivative of a k = 2 curve is
\* zero, the float quotient infinite.
getLERadius(self) == Return(self, "inf")

\* What a search over the camber or a thickness curve returns is not
\* evaluated: the curves' interior points are not.
Searched(what) == <<"searched", what>>

getMaxThickness(self, tType) ==
    IF tType \notin ThicknessTypes THEN Raise(self, ErrThicknessType)
    ELSE IF tType = "american" THEN Return(self, Searched("american_thickness"))
    ELSE Return(self, Searched("british_thickness"))

_MaxCamberOptimize(self, maximum) == Searched(<<"camber", maximum>>)

\* getMaxCamber keeping what it found in the camber field
getMaxCamberStoring(self) ==
    Return([self EXCEPT !.camber = _MaxCamberOptimize(self, TRUE)],
           _MaxCamberOptimize(self, TRUE))
getMaxCamber(self) == Return(self, _MaxCamberOptimize(self, TRUE))
getMinCamber(self) == Return(self, _MaxCamberOptimize(self, FALSE))

isReflex(self) == Return(self, Searched("camber.getDerivative(1)"))

isSymmetric(self, tol) ==
    Return(self, <<_MaxCamberOptimize(self, FALSE), _MaxCamberOptimize(self, TRUE), tol>>)

\* findPt: the point where the spline meets the line axis = position
foundAt(self, s_x) == Return(self, <<getValue(self.spline, s_x), s_x>>)
findPt(self, position, axis) ==
    foundAt(self, projectCurve(self.spline,
                               IF axis = 0 THEN <<position, RZero>> ELSE <<RZero, position>>,
                               IF axis = 0 THEN Pt(0, 1) ELSE Pt(1, 0)))

\* writeCoords: what it hands to _writePlot3D or _writeDat is the outcome's
\* field written; NoFile when it writes nothing.
ErrNoCoords == "No coordinates to write!"
ErrFormat == " is not a supported output format!"
NoFile == [wrote |-> FALSE, file_format |-> "", coords |-> None]
Wrote(file_format, coords) == [wrote |-> TRUE, file_format |-> file_format, coords |-> coords]

Writing(self, msg, file) ==
    [self |-> self, err |-> msg, warn |-> {}, ret |-> None, written |-> file]

\* writeCoords once coords is settled
writeFormat(self, coords, file_format) ==
    IF file_format \in {"plot3d", "dat"}
    THEN Writing(self, NoError, Wrote(file_format, coords))
    ELSE Writing(self, file_format \o ErrFormat, NoFile)

\* writeCoords with sampled_pts kept as set, cached or not
writeCoordsUnchecked(self, coords, spline_coords, file_format) ==
    writeFormat(self,
                IF spline_coords THEN getSplinePts(self)
                ELSE IF coords = None THEN self.sampled_pts ELSE coords,
                file_format)

writeCoords(self, coords, spline_coords, file_format) ==
    IF ~spline_coords /\ coords = None /\ self.sampled_pts = None
    THEN Writing(self, ErrNoCoords, NoFile)
    ELSE writeFormat(self,
                     IF spline_coords THEN getSplinePts(self)
                     ELSE IF coords = None THEN self.sampled_pts ELSE coords,
                     file_format)

Queries == {"getTE", "getLE", "getChord", "getTwist", "getTEThickness",
            "getTEAngle", "getLERadius", "getMaxThickness", "getMaxCamber",
            "getMinCamber", "isReflex", "isSymmetric", "splitAirfoil", "findPt",
            "getCamber", "getSplinePts", "getCDistribution", "getThickness"}

\* The call of a query by name with the arguments arg
query(self, q, arg) ==
    CASE q = "getTE" -> Return(self, getTE(self))
      [] q = "getLE" -> Return(self, getLE(self))
      [] q = "getChord" -> Return(self, getChord(self))
      [] q = "getTwist" -> Return(self, getTwist(self))
      [] q = "getTEThickness" -> Return(self, getTEThickness(self))
      [] q = "getTEAngle" -> getTEAngle(self)
      [] q = "getLERadius" -> getLERadius(self)
      [] q = "getMaxThickness" -> getMaxThickness(self, arg.tType)
      [] q = "getMaxCamber" -> getMaxCamber(self)
      [] q = "getMinCamber" -> getMinCamber(self)
      [] q = "isReflex" -> isReflex(self)
      [] q = "isSymmetric" -> isSymmetric(self, arg.tol)
      [] q = "splitAirfoil" -> Return(self, splitAirfoil(self))
      [] q = "findPt" -> findPt(self, arg.position, arg.axis)
      [] q = "getCamber" -> Return(self, self.camber)
      [] q = "getSplinePts" -> Return(self, getSplinePts(self))
      [] q = "getCDistribution" -> Return(self, getCDistribution(self, arg.nPts))
      [] q = "getThickness" -> getThicknessChecked(self, arg.nPts, arg.tType)

(***************************************************************************)
(* The state machine: one Airfoil object and the calls made on it.         *)
(***************************************************************************)
VARIABLES
    spline, TE, LE, s_LE, chord, twist, closedCurve, sampled_pts,
    camber, british_thickness, american_thickness,
    nRecompute,     \* the recompute calls the last call made
    handed,         \* the coordinate array the last of them was called with
    lastOp,         \* the last method called, with its arguments lastArg
    lastArg,
    err,            \* the message of the Error it raised, NoError for none
    warn,           \* the warnings it emitted
    ret,            \* what it returned: [of |-> the method, value |-> the value]
    pre,            \* the fields of the object when it was called
    sampledSince,   \* getSampledPts has been called, and no recompute since
    everSampled,    \* getSampledPts has been called
    written,        \* what the last call wrote to a file
    frames,         \* the calls of recompute that have not returned
    nOps

fields == <<spline, TE, LE, s_LE, chord, twist, closedCurve, sampled_pts,
            camber, british_thickness, american_thickness>>
vars == <<spline, TE, LE, s_LE, chord, twist, closedCurve, sampled_pts,
          camber, british_thickness, american_thickness, nRecompute, handed,
          lastOp, lastArg, err, warn, ret, pre, sampledSince, everSampled,
          written, frames, nOps>>

\* The object as a call finds it
Self ==
    [spline |-> spline, TE |-> TE, LE |-> LE, s_LE |-> s_LE, chord |-> chord,
     twist |-> twist, closedCurve |-> closedCurve, sampled_pts |-> sampled_pts,
     camber |-> camber, british_thickness |-> british_thickness,
     american_thickness |-> american_thickness, nRecompute |-> 0,
     handed |-> None]

Store(self) ==
    /\ spline' = self.spline
    /\ TE' = self.TE
    /\ LE' = self.LE
    /\ s_LE' = self.s_LE
    /\ chord' = self.chord
    /\ twist' = self.twist
    /\ closedCurve' = self.closedCurve
    /\ sampled_pts' = self.sampled_pts
    /\ camber' = self.camber
    /\ british_thickness' = self.british_thickness
    /\ american_thickness' = self.american_thickness
    /\ nRecompute' = self.nRecompute
    /\ handed' = self.handed

\* Bounds of the model: the calls made on the object, the points of a
\* coordinate set, and the numerators and denominators of its coordinates.
MaxOps == 2
MaxPts == 9
MaxNum == 256
MaxDen == 16

\* The coordinate arrays the model follows recompute on
InModel(coords) ==
    /\ Len(coords) <= MaxPts
    /\ \A i \in 1..Len(coords) : \A c \in 1..2 :
            Abs(coords[i][c][1]) <= MaxNum /\ coords[i][c][2] <= MaxDen

\* The blunt airfoil sharpenTE and roundTE work on: a closed one is cut first.
Followed(coords) == CanRecompute(coords) /\ InModel(coords)
BluntOK(self, xCut) == self.closedCurve => Followed(BluntCut(self, xCut).coords)
Blunted(self, xCut) == IF self.closedCurve THEN makeBluntTE(self, xCut).self ELSE self

\* The runs of sharpenTE the model follows: recompute returns wherever it is
\* called, and a point that is added is finite.
sharpenSlopesInDomain(me, dx_u, dx_l) ==
    \/ SlopeEq(dx_u, dx_l)
    \/ SlopeGt(dx_u, dx_l)
    \/ IsFinite(dx_u) /\ IsFinite(dx_l) /\ InModel(SharpCoords(me))

sharpenBluntInDomain(me) ==
    sharpenSlopesInDomain(me, SlopeUpper(me.spline), SlopeLower(me.spline))

sharpenTEInDomain(self, xCut) ==
    BadXCut(xCut) \/ (BluntOK(self, xCut) /\ sharpenBluntInDomain(Blunted(self, xCut)))

\* The runs of roundTE the model follows: recompute returns wherever it is
\* called, the lengths are rational and the end slopes finite.
roundBluntInDomain(me, k, nPts, dist) ==
    /\ IsSquare(getTEThickness(me))
    /\ IsFinite(SlopeUpper(me.spline))
    /\ IsFinite(SlopeLower(me.spline))
    /\ k = 4 => (IsSquare(Norm2(VSub(me.TE, me.LE))) /\ me.TE # me.LE)
    /\ InModel(RoundCoords(me, k, nPts, dist))

roundTEInDomain(self, xCut, k, nPts, dist) ==
    BadXCut(xCut)
        \/ (BluntOK(self, xCut) /\ roundBluntInDomain(Blunted(self, xCut), k, nPts, dist))

\* The runs of normalizeAirfoil the model follows: the chord length is
\* rational where a step divides by it, and recompute returns.
centerInDomain(self) ==
    self.LE = Pt(0, 0) \/ InModel(_translateCoords(self.spline, VScale(R(-1), self.LE)))
derotateInDomain(self) ==
    /\ self.chord # RZero
    /\ IsSquare(self.chord)
    /\ InModel(_rotateCoords(self.spline,
                             MinusAngle(AngleOf(self.twist, RSqrt(self.chord))), Pt(0, 0)))
normalizeChordInDomain(self) ==
    \/ self.chord = R(1)
    \/ /\ self.chord # RZero
       /\ IsSquare(self.chord)
       /\ InModel(_scaleCoords(self.spline, RInv(RSqrt(self.chord)), Pt(0, 0)))
normalizeInDomain(self, derotate_, normalize, center_) ==
    /\ center_ => centerInDomain(self)
    /\ \E centered \in {centerIf(center_, self)} :
        /\ derotate_ => derotateInDomain(centered)
        /\ \E rotated \in {derotateIf(derotate_, centered)} :
            normalize => normalizeChordInDomain(rotated)

\* The effect of the call op(arg) whose outcome is r
Call(op, arg, outcome) ==
    \E r \in {outcome} :
    /\ Store(r.self)
    /\ lastOp' = op
    /\ lastArg' = arg
    /\ err' = r.err
    /\ warn' = r.warn
    /\ ret' = [of |-> op, value |-> r.ret]
    /\ pre' = Self
    /\ sampledSince' = IF op = "getSampledPts" THEN TRUE
                       ELSE IF r.self.nRecompute > 0 THEN FALSE
                       ELSE sampledSince
    /\ everSampled' = (everSampled \/ op = "getSampledPts")
    /\ written' = IF op = "writeCoords" THEN r.written ELSE NoFile
    /\ frames' = frames
    /\ nOps' = nOps + 1

\* The coordinate sets an Airfoil is constructed from
Poly(xy) == [i \in 1..Len(xy) |-> Pt(xy[i][1], xy[i][2])]
SharpFoil == Poly(<<<<4, 0>>, <<2, 1>>, <<0, 0>>, <<2, -1>>, <<4, 0>>>>)
BluntFoil == Poly(<<<<4, 1>>, <<2, 2>>, <<0, 0>>, <<2, -2>>, <<4, -1>>>>)
ParallelFoil == Poly(<<<<4, 1>>, <<2, 1>>, <<0, 0>>, <<2, -1>>, <<4, -1>>>>)
OpeningFoil == Poly(<<<<4, 2>>, <<2, 1>>, <<0, 0>>, <<2, -1>>, <<4, -2>>>>)
FlaredFoil == Poly(<<<<-2, 8>>, <<-1, 0>>, <<0, -2>>, <<1, 0>>, <<2, 8>>>>)
SteppedFoil ==
    Poly(<<<<4, 0>>, <<4, 1>>, <<2, 2>>, <<0, 0>>, <<2, -2>>, <<4, -1>>, <<4, 0>>>>)
CamberedFoil == Poly(<<<<8, 0>>, <<4, 3>>, <<0, 0>>, <<4, 1>>, <<8, 0>>>>)
Shapes == {SharpFoil, Reverse(SharpFoil), BluntFoil, Reverse(BluntFoil),
           ParallelFoil, OpeningFoil, FlaredFoil, SteppedFoil,
           Reverse(SteppedFoil), CamberedFoil}

\* The arguments the calls are made with
XCuts == {<<0, 1>>, <<1, 2>>, <<1, 1>>}
BluntCuts == {<<1, 2>>, <<3, 4>>, <<1, 1>>}
Angles == {<<R(0), R(1)>>, <<R(-1), R(0)>>, <<Norm(3, 5), Norm(4, 5)>>}
Origins == {Pt(0, 0)}
Factors == {<<2, 1>>, <<1, 2>>}
Deltas == {Pt(1, -1)}
Orders == {3, 4}
RoundPts == {3, 5, 6}
Dists == {<<1, 2>>}
Tols == {<<3, 10>>}
XTols == {<<9, 10>>}
SampleCounts == {2}
TECounts == {0, 2}
TTypes == {"american", "british", "invalid"}
SamplePts == {2, 3, 4}
NormalizeFlags == {<<TRUE, TRUE, TRUE>>, <<TRUE, FALSE, FALSE>>, <<FALSE, FALSE, FALSE>>}
NormalizedShapes == {FlaredFoil, CamberedFoil, Reverse(SharpFoil)}
GivenCoords == {None, Poly(<<<<1, 0>>, <<0, 0>>, <<1, 0>>>>)}
Formats == {"plot3d", "dat", "csv"}
QueryArgs(q) ==
    {[tType |-> t, tol |-> <<1, 1000000>>, position |-> R(1), axis |-> 0, nPts |-> n] :
        t \in IF q \in {"getMaxThickness", "getThickness"} THEN TTypes ELSE {"british"},
        n \in IF q \in {"getCDistribution", "getThickness"} THEN SamplePts ELSE {4}}

Init ==
    \E coords \in Shapes :
    \E normalize \in IF coords \in NormalizedShapes THEN BOOLEAN ELSE {FALSE} :
        /\ normalize =>
                \E self \in {construct(coords)} : normalizeInDomain(self, TRUE, TRUE, TRUE)
        /\ \E self \in {constructWith(coords, normalize)} :
            /\ spline = self.spline
            /\ TE = self.TE
            /\ LE = self.LE
            /\ s_LE = self.s_LE
            /\ chord = self.chord
            /\ twist = self.twist
            /\ closedCurve = self.closedCurve
            /\ sampled_pts = self.sampled_pts
            /\ camber = self.camber
            /\ british_thickness = self.british_thickness
            /\ american_thickness = self.american_thickness
            /\ nRecompute = self.nRecompute
            /\ handed = self.handed
            /\ lastOp = "__init__"
            /\ lastArg = [coords |-> coords, normalize |-> normalize]
            /\ err = NoError
            /\ warn = {}
            /\ ret = [of |-> "__init__", value |-> None]
            /\ pre = [self EXCEPT !.nRecompute = 0, !.handed = None]
            /\ sampledSince = FALSE
            /\ everSampled = FALSE
            /\ written = NoFile
            /\ frames = <<>>
            /\ nOps = 0

Rotate ==
    /\ nOps < MaxOps
    /\ \E angle \in Angles, origin \in Origins :
        /\ InModel(_rotateCoords(spline, angle, origin))
        /\ Call("rotate", <<angle, origin>>, rotate(Self, angle, origin))

Scale ==
    /\ nOps < MaxOps
    /\ \E factor \in Factors, origin \in Origins :
        /\ InModel(_scaleCoords(spline, factor, origin))
        /\ Call("scale", <<factor, origin>>, scale(Self, factor, origin))

Translate ==
    /\ nOps < MaxOps
    /\ \E delta \in Deltas :
        /\ InModel(_translateCoords(spline, delta))
        /\ Call("translate", <<delta>>, translate(Self, delta))

MakeBluntTE ==
    /\ nOps < MaxOps
    /\ \E xCut \in BluntCuts :
        /\ Followed(BluntCut(Self, xCut).coords)
        /\ Call("makeBluntTE", <<xCut>>, makeBluntTE(Self, xCut))

SharpenTE ==
    /\ nOps < MaxOps
    /\ \E xCut \in XCuts :
        /\ sharpenTEInDomain(Self, xCut)
        /\ Call("sharpenTE", <<xCut>>, sharpenTE(Self, xCut))

RoundTE ==
    /\ nOps < MaxOps
    /\ \E xCut \in XCuts, k \in Orders, nPts \in RoundPts, dist \in Dists :
        /\ roundTEInDomain(Self, xCut, k, nPts, dist)
        /\ Call("roundTE", <<xCut, k, nPts, dist>>, roundTE(Self, xCut, k, nPts, dist))

RemoveTE ==
    /\ nOps < MaxOps
    /\ \E tol \in Tols, xtol \in XTols :
        /\ CanRecompute(Rows(spline, removeTEMasks(Self, tol, xtol)[2]))
        /\ Call("removeTE", <<tol, xtol>>, removeTE(Self, tol, xtol))

GetSampledPts ==
    /\ nOps < MaxOps
    /\ \E nPts \in SampleCounts, nTEPts \in TECounts, TE_knot \in BOOLEAN :
        Call("getSampledPts", <<nPts, nTEPts, TE_knot>>,
             getSampledPts(Self, nPts, nTEPts, TE_knot))

Query ==
    /\ nOps < MaxOps
    /\ \E q \in Queries : \E arg \in QueryArgs(q) : Call(q, arg, query(Self, q, arg))

NormalizeAirfoil ==
    /\ nOps < MaxOps
    /\ \E flags \in NormalizeFlags :
        /\ normalizeInDomain(Self, flags[1], flags[2], flags[3])
        /\ Call("normalizeAirfoil", flags,
                normalizeAirfoil(Self, flags[1], flags[2], flags[3]))

\* writeCoords changes nothing of the object: one such call is followed
\* after the last of the MaxOps other calls as well.
WriteCoords ==
    /\ nOps <= MaxOps
    /\ \E coords \in GivenCoords, spline_coords \in BOOLEAN, file_format \in Formats :
        Call("writeCoords",
             [coords |-> coords, spline_coords |-> spline_coords, file_format |-> file_format],
             writeCoords(Self, coords, spline_coords, file_format))

Next ==
    \/ Rotate
    \/ Scale
    \/ Translate
    \/ MakeBluntTE
    \/ SharpenTE
    \/ RoundTE
    \/ RemoveTE
    \/ GetSampledPts
    \/ Query
    \/ NormalizeAirfoil
    \/ WriteCoords

Spec == Init /\ [][Next]_vars

(***************************************************************************)
(* recompute, one statement at a time.  frames is the stack of the calls   *)
(* of recompute that have not returned, the innermost last: the array the  *)
(* call was handed, the position pc of its next statement and the          *)
(* statements it has executed.                                             *)
(***************************************************************************)
\* recompute with getLE ahead of getTE
OrderLEFirst ==
    <<"spline", "reorder", "LE", "TE", "chord", "twist", "closedCurve",
      "sampled_pts", "camber", "british_thickness", "american_thickness">>

\* The statements of recompute in the order of the code, each named by the
\* field it assigns
Order ==
    <<"spline", "reorder", "TE", "LE", "chord", "twist", "closedCurve",
      "sampled_pts", "camber", "british_thickness", "american_thickness">>

\* The fields a statement assigns
Writes(stmt) ==
    CASE stmt = "reorder" -> {}
      [] stmt = "LE" -> {"LE", "s_LE"}
      [] OTHER -> {stmt}

\* The fields of the object a statement reads
Reads(stmt) ==
    CASE stmt = "spline" -> {}
      [] stmt = "reorder" -> {"spline"}
      [] stmt = "TE" -> {"spline"}
      [] stmt = "LE" -> {"spline", "TE"}
      [] stmt = "chord" -> {"TE", "LE"}
      [] stmt = "twist" -> {"TE", "LE"}
      [] stmt = "closedCurve" -> {}
      [] stmt = "sampled_pts" -> {}
      [] stmt = "camber" -> {"spline", "s_LE", "LE", "TE", "twist", "chord"}
      [] stmt = "british_thickness" ->
            {"spline", "s_LE", "LE", "TE", "twist", "chord", "camber"}
      [] stmt = "american_thickness" ->
            {"spline", "s_LE", "LE", "TE", "chord", "camber"}

\* The object after the statement, run on the object s in a call handed coords
Statement(stmt, s, coords) ==
    CASE stmt = "spline" -> setSpline(s, coords)
      [] stmt = "TE" -> setTE(s)
      [] stmt = "LE" -> setLE(s)
      [] stmt = "chord" -> setChord(s)
      [] stmt = "twist" -> setTwist(s)
      [] stmt = "closedCurve" -> setClosedCurve(s, coords)
      [] stmt = "sampled_pts" -> clearSampledPts(s)
      [] stmt = "camber" -> setCamber(s, coords)
      [] stmt = "british_thickness" -> setBritish(s, coords)
      [] stmt = "american_thickness" -> setAmerican(s, coords)

\* The object in the middle of a call
Obj == [Self EXCEPT !.nRecompute = nRecompute, !.handed = handed]

Top == frames[Len(frames)]
Entered(coords) == [coords |-> coords, pc |-> 1, assigned |-> <<>>]
Advanced(frame) ==
    [frame EXCEPT !.pc = @ + 1, !.assigned = Append(@, Order[frame.pc])]

\* The arrays rotate, scale and translate hand to recompute
HandedBy(X) ==
    {_rotateCoords(X, angle, origin) : angle \in Angles, origin \in Origins}
        \cup {_scaleCoords(X, factor, origin) : factor \in Factors, origin \in Origins}
        \cup {_translateCoords(X, delta) : delta \in Deltas}

StepsInit ==
    \E coords \in Shapes :
        /\ spline = None /\ TE = None /\ LE = None /\ s_LE = 0
        /\ chord = RZero /\ twist = None /\ closedCurve = FALSE
        /\ sampled_pts = None /\ camber = None
        /\ british_thickness = None /\ american_thickness = None
        /\ nRecompute = 0
        /\ handed = None
        /\ lastOp = "__init__"
        /\ lastArg = [coords |-> coords, normalize |-> FALSE]
        /\ err = NoError
        /\ warn = {}
        /\ ret = [of |-> "__init__", value |-> None]
        /\ pre = Self
        /\ sampledSince = FALSE
        /\ everSampled = FALSE
        /\ written = NoFile
        /\ frames = <<Entered(coords)>>
        /\ nOps = 0

\* An operation on the object calls recompute
RecomputeCall ==
    /\ frames = <<>>
    /\ nOps < MaxOps
    /\ \E coords \in HandedBy(spline) :
        /\ InModel(coords)
        /\ frames' = <<Entered(coords)>>
    /\ nRecompute' = 0
    /\ handed' = None
    /\ nOps' = nOps + 1
    /\ UNCHANGED <<fields, lastOp, lastArg, err, warn, ret, pre, sampledSince,
                   everSampled, written>>

\* One assignment of recompute
RecomputeStep ==
    /\ frames # <<>>
    /\ Top.pc <= Len(Order)
    /\ Order[Top.pc] # "reorder"
    /\ Store(Statement(Order[Top.pc], Obj, Top.coords))
    /\ frames' = [frames EXCEPT ![Len(frames)] = Advanced(Top)]
    /\ UNCHANGED <<lastOp, lastArg, err, warn, ret, pre, sampledSince,
                   everSampled, written, nOps>>

\* self.reorder(): the nested call of recompute on the reversed array
ReorderStep ==
    /\ frames # <<>>
    /\ Top.pc <= Len(Order)
    /\ Order[Top.pc] = "reorder"
    /\ frames' =
            IF RLt(RZero, area(spline))
            THEN Append([frames EXCEPT ![Len(frames)] = Advanced(Top)],
                        Entered(Reverse(spline)))
            ELSE [frames EXCEPT ![Len(frames)] = Advanced(Top)]
    /\ UNCHANGED <<fields, nRecompute, handed, lastOp, lastArg, err, warn, ret,
                   pre, sampledSince, everSampled, written, nOps>>

\* recompute returns to its caller
RecomputeReturn ==
    /\ frames # <<>>
    /\ Top.pc = Len(Order) + 1
    /\ frames' = SubSeq(frames, 1, Len(frames) - 1)
    /\ handed' = Top.coords
    /\ UNCHANGED <<fields, nRecompute, lastOp, lastArg, err, warn, ret, pre,
                   sampledSince, everSampled, written, nOps>>

StepsNext ==
    \/ RecomputeCall
    \/ RecomputeStep
    \/ ReorderStep
    \/ RecomputeReturn

SpecSteps == StepsInit /\ [][StepsNext]_vars

(***************************************************************************)
(* Properties                                                              *)
(***************************************************************************)
\* The shoelace sum of a coordinate array c: the sum over i of
\* (x[i] - x[i-1]) * (y[i] + y[i-1]), wrapping from the last point to the
\* first.
Shoelace(c) ==
    LET x(i) == c[i][1]
        y(i) == c[i][2]
        before(i) == IF i = 1 THEN Len(c) ELSE i - 1
        sum[i \in 0..Len(c)] ==
            IF i = 0 THEN RZero
            ELSE RAdd(sum[i - 1],
                      RMul(RSub(x(i), x(before(i))), RAdd(y(i), y(before(i)))))
    IN  sum[Len(c)]

\* The derived fields of an object o, with its coordinate set
Derived(o) ==
    <<o.spline, o.TE, o.LE, o.s_LE, o.chord, o.twist, o.closedCurve,
      o.camber, o.british_thickness, o.american_thickness>>

\* C1: whenever recompute has returned, the stored coordinate set is
\* counter-clockwise (its shoelace sum is not positive), and a coordinate
\* array handed to recompute with a positive shoelace sum is stored in
\* reversed order.
C1_StoredCounterClockwise ==
    /\ ~RLt(RZero, Shoelace(spline))
    /\ (nRecompute > 0 /\ RLt(RZero, Shoelace(handed))) => spline = Reverse(handed)

\* An operation on the object handed recompute a clockwise array, which is
\* stored reversed.
C1_Witness ==
    /\ nOps > 0
    /\ nRecompute > 0
    /\ RLt(RZero, Shoelace(handed))
    /\ spline = Reverse(handed)
    /\ RLt(Shoelace(spline), RZero)

\* C2: the sampled-points cache is non-empty exactly when getSampledPts has
\* been called and no recompute has run since that call.
C2_CacheIffSampledSince == (sampled_pts # None) <=> sampledSince

\* A populated cache was emptied by an operation that ran recompute.
C2_Witness ==
    /\ pre.sampled_pts # None
    /\ nRecompute > 0
    /\ sampled_pts = None

\* The queries C3 names
C3_Queries ==
    {"getTE", "getLE", "getChord", "getTwist", "getTEThickness", "getTEAngle",
     "getLERadius", "getMaxThickness", "getMaxCamber", "getMinCamber", "isReflex",
     "isSymmetric", "splitAirfoil", "findPt"}

\* C3: the coordinate set, TE, LE, s_LE, chord, twist, closedCurve, the
\* camber curve and both thickness curves change only in a call that runs
\* recompute; the queries and getSampledPts run none, so they leave all of
\* them as they were.
C3_WrittenOnlyInRecompute ==
    /\ lastOp \in C3_Queries \cup {"getSampledPts"} => nRecompute = 0
    /\ nRecompute = 0 => Derived(Self) = Derived(pre)
    /\ lastOp \in C3_Queries => sampled_pts = pre.sampled_pts

\* A query was made on an object whose cache getSampledPts had filled, and
\* left the object as it was.
C3_Witness ==
    /\ lastOp \in C3_Queries
    /\ nOps = 2
    /\ pre.sampled_pts # None
    /\ sampled_pts = pre.sampled_pts
    /\ Derived(Self) = Derived(pre)

\* C4: closedCurve is true if and only if the first and the last coordinate
\* of the stored coordinate set are equal, also after a reversal.
C4_ClosedIffEndsEqual == closedCurve <=> (spline[1] = spline[Len(spline)])

\* A clockwise open array was reversed, and is stored as not closed.
C4_Witness ==
    /\ nRecompute > 1
    /\ spline = Reverse(handed)
    /\ spline[1] # spline[Len(spline)]
    /\ spline[1][1] = spline[Len(spline)][1]
    /\ ~closedCurve

\* The case of C5: sharpenTE succeeded on a blunt airfoil.
C5_Case == lastOp = "sharpenTE" /\ err = NoError /\ ~pre.closedCurve

\* p is on both trailing-edge tangent lines of the coordinate array X
OnBothTangents(p, X) ==
    /\ Cross(VSub(p, X[1]), VSub(X[2], X[1])) = RZero
    /\ Cross(VSub(p, X[Len(X)]), VSub(X[Len(X)], X[Len(X) - 1])) = RZero

\* c is old with one point of both tangent lines of old added at the front
\* and at the back
Sharpened(c, old) ==
    /\ Len(c) = Len(old) + 2
    /\ SubSeq(c, 2, Len(c) - 1) = old
    /\ c[1] = c[Len(c)]
    /\ OnBothTangents(c[1], old)

\* C5 as stated: a sharpenTE call that succeeds on a blunt airfoil stores the
\* old coordinate set, in order, with the tangent-line intersection point
\* added at the front and at the back; closedCurve is true and the gap
\* between the first and the last coordinate is zero.
C5_StoredInOrder ==
    C5_Case =>
        /\ Sharpened(spline, pre.spline)
        /\ closedCurve
        /\ spline[1] = spline[Len(spline)]

\* C5 amended: the array handed to recompute is the old coordinate set, in
\* order, with the tangent-line intersection point added at the front and at
\* the back; it is stored as it is when its shoelace sum is not positive and
\* reversed as a whole when it is positive; either way closedCurve is true
\* and the gap between the first and the last coordinate is zero.
C5_StoredUpToReversal ==
    C5_Case =>
        /\ Sharpened(handed, pre.spline)
        /\ spline = IF RLt(RZero, Shoelace(handed)) THEN Reverse(handed) ELSE handed
        /\ closedCurve
        /\ spline[1] = spline[Len(spline)]
        /\ getTEThickness(Self) = RZero

\* sharpenTE succeeded on a blunt airfoil, and the old coordinates are
\* stored in order between the two copies of the new point.
C5_Witness ==
    /\ C5_Case
    /\ Sharpened(spline, pre.spline)
    /\ spline[1] # pre.spline[1]
    /\ closedCurve

\* C6: sharpenTE adds an intersection point only when the slope at s = 0 of
\* the blunt airfoil is strictly less than the slope at s = 1; equal slopes
\* raise the parallel error and a greater upper slope raises the towards-LE
\* error, and then the object is the blunt airfoil: no point is added and no
\* further recompute runs.
C6_SlopeOrder ==
    (lastOp = "sharpenTE" /\ err # ErrXCut) =>
        LET b == Blunted(pre, lastArg[1])
            dx_u == Slope(VSub(b.spline[2], b.spline[1]))
            dx_l == Slope(VSub(b.spline[Len(b.spline)], b.spline[Len(b.spline) - 1]))
            untouched == /\ Derived(Self) = Derived(b)
                         /\ nRecompute = b.nRecompute
                         /\ handed = b.handed
        IN  /\ SlopeEq(dx_u, dx_l) => (err = ErrParallel /\ untouched)
            /\ SlopeGt(dx_u, dx_l) => (err = ErrTowardsLE /\ untouched)
            /\ err = NoError =>
                    /\ IsFinite(dx_u) /\ IsFinite(dx_l) /\ RLt(dx_u, dx_l)
                    /\ nRecompute > b.nRecompute
                    /\ Len(handed) = Len(b.spline) + 2
            /\ err # NoError => untouched

\* The parallel error was raised on a blunt airfoil, which is as it was.
C6_Witness ==
    /\ lastOp = "sharpenTE"
    /\ err = ErrParallel
    /\ ~pre.closedCurve
    /\ spline = pre.spline

\* C7: sharpenTE and roundTE with xCut <= 0 or xCut >= 1, and getThickness and
\* getMaxThickness with a thickness type other than american and british,
\* raise their error and leave the coordinate set, the derived features and
\* the sampled-points cache as they were; no recompute runs.
C7_InvalidParameter ==
    /\ (lastOp \in {"sharpenTE", "roundTE"}
            /\ (RLe(lastArg[1], RZero) \/ RLe(R(1), lastArg[1])))
        => (err = ErrXCut /\ Self = pre /\ nRecompute = 0)
    /\ (lastOp \in {"getThickness", "getMaxThickness"}
            /\ lastArg.tType \notin {"american", "british"})
        => (err = ErrThicknessType /\ Self = pre /\ nRecompute = 0)

\* The domain error of xCut was raised on a closed airfoil whose cache was
\* filled.
C7_Witness ==
    /\ lastOp \in {"sharpenTE", "roundTE"}
    /\ err = ErrXCut
    /\ pre.closedCurve
    /\ pre.sampled_pts # None
    /\ sampled_pts = pre.sampled_pts

\* C8: makeBluntTE stores [top intersection] + retained + [bottom
\* intersection]; retained are the old coordinates, in their order, whose
\* offset from the cut point LE + xCut * (TE - LE) has a strictly positive
\* dot product with LE - TE.
C8_BluntCoords ==
    lastOp = "makeBluntTE" =>
        LET cut == VAdd(pre.LE, VScale(lastArg[1], VSub(pre.TE, pre.LE)))
            toLE == VSub(pre.LE, pre.TE)
            retained == SelectSeq(pre.spline,
                                  LAMBDA p : RLt(RZero, Dot(VSub(p, cut), toLE)))
            surf == splitAirfoil(pre)
            top == getValue(surf[1], projectCurve(surf[1], cut, NormalToChord(pre.twist)))
            bottom == getValue(surf[2], projectCurve(surf[2], cut, NormalToChord(pre.twist)))
        IN  spline = <<top>> \o retained \o <<bottom>>

\* makeBluntTE dropped an old coordinate that lies on the cut line.
C8_Witness ==
    /\ lastOp = "makeBluntTE"
    /\ \E i \in 1..Len(pre.spline) :
            /\ Dot(VSub(pre.spline[i],
                        VAdd(pre.LE, VScale(lastArg[1], VSub(pre.TE, pre.LE)))),
                   VSub(pre.LE, pre.TE)) = RZero
            /\ \A j \in 2..(Len(spline) - 1) : spline[j] # pre.spline[i]
    /\ Len(spline) >= 3

\* p is a coordinate of the array c
InArray(p, c) == \E i \in 1..Len(c) : c[i] = p

\* The segments of C9: the start point is past the xtol threshold and
\* |unit segment direction . unit chord direction| < tol
C9_Flagged(old, le, te, tol, xtol) ==
    {ii \in 1..(Len(old) - 1) :
        LET chord_vec == VSub(te, le)
            delta == VSub(old[ii + 1], old[ii])
        IN  /\ RLe(RAdd(le[1], RMul(xtol, chord_vec[1])), old[ii][1])
            /\ Norm2(delta) # RZero
            /\ Norm2(chord_vec) # RZero
            /\ RLt(RMul(Dot(chord_vec, delta), Dot(chord_vec, delta)),
                   RMul(RMul(tol, tol), RMul(Norm2(chord_vec), Norm2(delta))))}

\* C9: removeTE partitions the old coordinate set: every end point of a
\* flagged segment is absent from the new coordinate set and is in the
\* returned array, and every coordinate of the returned array is absent from
\* the new coordinate set.
C9_Partition ==
    lastOp = "removeTE" =>
        LET old == pre.spline
            flagged == C9_Flagged(old, pre.LE, pre.TE, lastArg[1], lastArg[2])
        IN  /\ \A ii \in flagged : \A p \in {old[ii], old[ii + 1]} :
                    ~InArray(p, spline) /\ InArray(p, ret.value)
            /\ \A i \in 1..Len(ret.value) : ~InArray(ret.value[i], spline)

\* C10: recompute on a coordinate array with non-zero shoelace sum and on
\* its reverse end in the same state: the object that recompute left when it
\* was handed an array is the object it leaves when handed the reverse.
C10_ReverseSameState ==
    (nRecompute > 0 /\ Shoelace(handed) # RZero) =>
        Derived(recompute(Self, Reverse(handed))) = Derived(Self)

\* An operation handed recompute a counter-clockwise array; the reverse is
\* clockwise and recompute stores it reversed back.
C10_Witness ==
    /\ nOps > 0
    /\ nRecompute > 0
    /\ RLt(Shoelace(handed), RZero)
    /\ Reverse(handed) # handed
    /\ recompute(Self, Reverse(handed)).spline = spline

C12_BritishPerpendicular ==
    /\ \A j \in 2..(Len(british_thickness) - 1) :
            /\ Dot(british_thickness[j].direction, VSub(TE, LE)) = RZero
            /\ british_thickness[j].direction = british_thickness[2].direction
    /\ (lastOp = "getThickness" /\ lastArg.tType = "british" /\ err = NoError) =>
            \A j \in 2..(Len(ret.value) - 1) :
                /\ Dot(ret.value[j].direction, VSub(TE, LE)) = RZero
                /\ ret.value[j].direction = ret.value[2].direction

\* C14: writeCoords without coords and without spline_coords raises the 'No
\* coordinates to write!' error, writing nothing, exactly when the cache is
\* empty, which is exactly when no getSampledPts has been called since the
\* last recompute; with the cache filled it writes the cached points (in a
\* supported format).
C14_WriteNeedsCache ==
    (lastOp = "writeCoords" /\ lastArg.coords = None /\ ~lastArg.spline_coords) =>
        /\ (err = ErrNoCoords) <=> (pre.sampled_pts = None)
        /\ (err = ErrNoCoords) <=> ~sampledSince
        /\ err = ErrNoCoords => ~written.wrote
        /\ (pre.sampled_pts # None /\ lastArg.file_format \in {"plot3d", "dat"}) =>
                /\ err = NoError
                /\ written.wrote
                /\ written.coords = pre.sampled_pts
        /\ Self = pre

\* The error was raised after a getSampledPts call, a geometry change having
\* emptied the cache in between.
C14_Witness ==
    /\ lastOp = "writeCoords"
    /\ lastArg.coords = None /\ ~lastArg.spline_coords
    /\ everSampled
    /\ ~sampledSince
    /\ err = ErrNoCoords
    /\ ~written.wrote

\* C15: after normalizeAirfoil with derotate, normalize and center all true,
\* also when it runs in the constructor (normalize = True), the leading edge
\* is at the origin, the twist is zero and the chord is one.
C15_Normalized ==
    (\/ lastOp = "normalizeAirfoil" /\ lastArg = <<TRUE, TRUE, TRUE>>
     \/ lastOp = "__init__" /\ lastArg.normalize) =>
        /\ LE = <<RZero, RZero>>
        /\ twist[2] = RZero /\ RLt(RZero, twist[1])
        /\ chord = <<1, 1>>

\* normalizeAirfoil moved, turned and scaled an airfoil that was off the
\* origin, twisted and of a chord other than one.
C15_Witness ==
    /\ lastOp = "normalizeAirfoil" /\ lastArg = <<TRUE, TRUE, TRUE>>
    /\ pre.LE # <<RZero, RZero>>
    /\ pre.twist[1] # RZero /\ pre.twist[2] # RZero
    /\ pre.chord # <<1, 1>>
    /\ LE = <<RZero, RZero>> /\ twist[2] = RZero /\ chord = <<1, 1>>
    /\ nRecompute >= 3

\* C16: roundTE(nPts) on a blunt airfoil adds nPts trailing-edge points: the
\* coordinate count after the call is the count before it plus nPts.
C16_RoundAddsNPts ==
    (lastOp = "roundTE" /\ err = NoError /\ ~pre.closedCurve) =>
        Len(spline) = Len(pre.spline) + lastArg[3]

\* C17 (as the code has it): recompute on an [N,2] coordinate array builds the
\* camber curve and both thickness curves from coords.size samples, the
\* number of elements of the array: 2N samples for N coordinate points.
C17_SampleCountIsSize ==
    nRecompute > 0 =>
        /\ Len(camber) = 2 * Len(handed)
        /\ Len(british_thickness) = 2 * Len(handed)
        /\ Len(american_thickness) = 2 * Len(handed)

\* C17 (as the specification has it): N samples for N coordinate points.
C17_SampleCountIsN ==
    nRecompute > 0 =>
        /\ Len(camber) = Len(handed)
        /\ Len(british_thickness) = Len(handed)
        /\ Len(american_thickness) = Len(handed)

\* roundTE handed recompute a longer array than the constructor had, and the
\* three curves were rebuilt from twice its number of points.
C17_Witness ==
    /\ lastOp = "roundTE" /\ err = NoError
    /\ nRecompute > pre.nRecompute
    /\ Len(handed) > Len(pre.spline)
    /\ Len(pre.camber) = 2 * Len(pre.spline)
    /\ Len(camber) = 2 * Len(handed)
    /\ Len(british_thickness) = 2 * Len(handed)
    /\ Len(american_thickness) = 2 * Len(handed)

\* The calls that hand recompute one coordinate array
C18_OneArray ==
    \/ lastOp \in {"rotate", "scale", "translate", "makeBluntTE", "removeTE"}
    \/ lastOp = "sharpenTE" /\ ~pre.closedCurve
    \/ lastOp = "__init__" /\ ~lastArg.normalize

\* C18: the orientation correction of recompute ends after at most one
\* reversal: the reverse of an array with a positive shoelace sum has a sum
\* that is not positive, so recompute runs once for an array it keeps and
\* twice (itself and the one nested call) for an array it reverses.
C18_OneReversal ==
    (C18_OneArray /\ nRecompute > 0) =>
        /\ nRecompute = IF RLt(RZero, area(handed)) THEN 2 ELSE 1
        /\ RLt(RZero, area(handed)) => ~RLt(RZero, area(Reverse(handed)))

\* sharpenTE handed recompute a clockwise array: the nested call stored the
\* reverse and made no further call.
C18_Witness ==
    /\ lastOp = "sharpenTE" /\ ~pre.closedCurve
    /\ RLt(RZero, area(handed))
    /\ nRecompute = 2
    /\ spline = Reverse(handed)
    /\ RLt(area(spline), RZero)

\* The order C19 gives
C19_Order ==
    <<"spline", "reorder", "TE", "LE", "chord", "twist", "closedCurve",
      "sampled_pts", "camber", "british_thickness", "american_thickness">>

\* The fields a call of recompute has assigned, the boundary spline of the
\* nested call being the one the outer call goes on with
Fresh(frame) == UNION {Writes(frame.assigned[i]) : i \in 1..Len(frame.assigned)}

\* The object with the fields outside kept forgotten
Forget(s, kept) ==
    [f \in DOMAIN s |-> IF f \in kept \cup {"nRecompute", "handed"} THEN s[f] ELSE None]

\* What the statement assigns
Assigned(stmt, s, coords) ==
    [f \in Writes(stmt) |-> Statement(stmt, s, coords)[f]]

\* C19: every call of recompute, the outer one that goes on after a nested
\* reversal too, executes its statements in the order boundary spline,
\* orientation, TE, LE and s_LE, chord, twist, closedCurve, cache clear,
\* camber, chord-normal thickness, camber-normal thickness, and its next
\* statement reads no field of the object that this call has not assigned:
\* what it assigns is the same with every other field forgotten.
C19_FixedOrder ==
    \A d \in 1..Len(frames) :
        /\ frames[d].assigned = SubSeq(C19_Order, 1, Len(frames[d].assigned))
        /\ frames[d].pc = Len(frames[d].assigned) + 1
        /\ (d = Len(frames) /\ frames[d].pc <= Len(Order)) =>
            /\ Reads(Order[frames[d].pc]) \subseteq Fresh(frames[d])
            /\ Order[frames[d].pc] # "reorder" =>
                    Assigned(Order[frames[d].pc], Obj, frames[d].coords)
                        = Assigned(Order[frames[d].pc],
                                   Forget(Obj, Fresh(frames[d])), frames[d].coords)

\* A returned call left the object recompute as a whole leaves
C19_StepsAreRecompute ==
    (frames = <<>> /\ nRecompute > 0) =>
        /\ Derived(Obj) = Derived(construct(handed))
        /\ nRecompute = construct(handed).nRecompute

\* The outer call, after the nested call on the reversed array returned, is
\* about to build the camber-normal thickness from the camber curve it built.
C19_Witness ==
    /\ Len(frames) = 1
    /\ nRecompute = 2
    /\ spline = Reverse(Top.coords)
    /\ Order[Top.pc] = "american_thickness"
    /\ "camber" \in Fresh(Top)
    /\ camber = getCDistribution(Obj, size(Top.coords))

\* p is on the segment from a to b and is neither of its ends
StrictlyBetween(p, a, b) ==
    /\ Cross(VSub(p, a), VSub(b, a)) = RZero
    /\ RLt(RZero, Dot(VSub(p, a), VSub(b, a)))
    /\ RLt(Dot(VSub(p, a), VSub(b, a)), Norm2(VSub(b, a)))

\* The boundary samples of getSampledPts(nPts) on the object o
C20_Boundary(o, nPts) ==
    sampledAlong(o.spline, joinedSpacing(nPts, Norm(o.s_LE - 1, Len(o.spline) - 1)))

\* The array v is the L boundary samples b, then k copies of the last of
\* them, then n points strictly between the two ends of the curve, then a
\* copy of the first sample.
C20_BluntLayout(v, b, k, n, X) ==
    /\ Len(v) = Len(b) + k + n + 1
    /\ SubSeq(v, 1, Len(b)) = SubSeq(b, 1, Len(b))
    /\ \A j \in 1..k : v[Len(b) + j] = b[Len(b)]
    /\ \A j \in 1..n : StrictlyBetween(v[Len(b) + k + j], X[Len(X)], X[1])
    /\ v[Len(v)] = b[1]
    /\ v[Len(v)] = v[1]

\* C20: getSampledPts on a blunt airfoil returns the L boundary samples,
\* then one copy of the last sample if TE_knot is set, then nTEPts points
\* strictly between the curve value at s = 1 and the one at s = 0, then a
\* copy of the first sample, so that its last row is its first row; on a
\* closed airfoil it returns the L boundary samples whatever TE_knot and
\* nTEPts are; the cache holds the array returned.
C20_SampledLayout ==
    lastOp = "getSampledPts" =>
        /\ ~pre.closedCurve =>
                C20_BluntLayout(ret.value, C20_Boundary(pre, lastArg[1]),
                                IF lastArg[3] THEN 1 ELSE 0, lastArg[2], pre.spline)
        /\ pre.closedCurve =>
                /\ Len(ret.value) = Len(C20_Boundary(pre, lastArg[1]))
                /\ \A j \in 1..Len(ret.value) :
                        ret.value[j] = C20_Boundary(pre, lastArg[1])[j]
        /\ sampled_pts = ret.value
        /\ Self = [pre EXCEPT !.sampled_pts = ret.value]

\* A blunt airfoil was sampled with the knot and two trailing-edge points:
\* three boundary samples, four more rows.
C20_Witness ==
    /\ lastOp = "getSampledPts"
    /\ ~pre.closedCurve
    /\ lastArg[3] /\ lastArg[2] = 2
    /\ Len(ret.value) = Len(C20_Boundary(pre, lastArg[1])) + 4
    /\ ret.value[Len(ret.value)] = ret.value[1]
    /\ ret.value[Len(ret.value) - 1] # ret.value[Len(ret.value) - 2]
    /\ sampled_pts = ret.value

\* The midpoint of the connecting curve roundTE built on the blunt airfoil o:
\* the end of its upper half
C21_Midpoint(o, k, dist) ==
    Bezier(splitTECurve(roundCoeff(o, k, RMul(RSqrt(getTEThickness(o)), dist)), k)[1],
           R(1))

C22_ErrorLeavesState ==
    (lastOp = "sharpenTE" /\ err # NoError) =>
        /\ Self = pre
        /\ nRecompute = 0

====
